---- MODULE Spec2Model ----
(***************************************************************************)
(* The two example MCP servers of the repository (simple-calculator and    *)
(* template) as request handlers, driven through a session.                *)
(*                                                                         *)
(* Python values are tagged records: IntV(n), FloatV(m, e) (the binary     *)
(* float m / 2^e, kept normalised), StrV(s).  The result of evaluating a   *)
(* Python expression is Ok(v) or Raise(cls, msg).  Texts are TLA+ strings, *)
(* built the way the f-strings of the source build them.  The characters   *)
(* outside ASCII that the source prints are written <U+....>.              *)
(***************************************************************************)
EXTENDS Integers, Sequences, FiniteSets, TLC

(* How many requests the client of one session sends. *)
MaxRequests == 2

(* How many requests the client sends when the session is followed event  *)
(* by event.                                                               *)
MaxSent == 3

(***************************************************************************)
(* The state of one session                                                *)
(***************************************************************************)
VARIABLES
    server,     \* the server this session is connected to
    state,      \* the session's state
    prior,      \* the session's state before the last call
    request,    \* the last call the client made
    response,   \* what the handler answered to it (NoResponse: it was not run)
    fault,      \* the fault the last call failed with, or "none"
    drawn,      \* what random.randint returned during the last call
    served,     \* how many requests the client has sent
    trace,      \* the events of the session, when it is followed event by event
    client      \* the test client's main(), when the session is driven by it

session == <<server, state, prior, request, response, fault, drawn, served>>

vars ==
    <<server, state, prior, request, response, fault, drawn, served, trace,
      client>>

(***************************************************************************)
(* Python values                                                           *)
(***************************************************************************)
IntV(n) == [t |-> "int", n |-> n]

FloatV(m, e) == [t |-> "float", m |-> m, e |-> e]

StrV(s) == [t |-> "str", s |-> s]

Ok(v) == [raised |-> FALSE, v |-> v]

Raise(cls, msg) == [raised |-> TRUE, cls |-> cls, msg |-> msg]

IsNum(v) == v.t \in {"int", "float"}

TypeName(v) == v.t

RECURSIVE Pow2(_)
Pow2(e) == IF e = 0 THEN 1 ELSE 2 * Pow2(e - 1)

Abs(n) == IF n < 0 THEN -n ELSE n

(* The numerator and the binary exponent of a number's value m / 2^e. *)
Mant(v) == IF v.t = "int" THEN v.n ELSE v.m

Expo(v) == IF v.t = "int" THEN 0 ELSE v.e

(* A float from m / 2^e, with the fraction reduced. *)
RECURSIVE MkFloat(_, _)
MkFloat(m, e) ==
    IF e > 0 /\ m % 2 = 0 THEN MkFloat(m \div 2, e - 1) ELSE FloatV(m, e)

(***************************************************************************)
(* str(): the decimal text of a value, as an f-string prints it            *)
(***************************************************************************)
Digit(d) ==
    CASE d = 0 -> "0" [] d = 1 -> "1" [] d = 2 -> "2" [] d = 3 -> "3"
      [] d = 4 -> "4" [] d = 5 -> "5" [] d = 6 -> "6" [] d = 7 -> "7"
      [] d = 8 -> "8" [] d = 9 -> "9"

RECURSIVE NatStr(_)
NatStr(n) == IF n < 10 THEN Digit(n) ELSE NatStr(n \div 10) \o Digit(n % 10)

IntStr(n) == IF n < 0 THEN "-" \o NatStr(-n) ELSE NatStr(n)

(* The digits of the fraction r / q (r < q, q a power of two), all of them. *)
RECURSIVE FracStr(_, _)
FracStr(r, q) ==
    IF r = 0 THEN ""
    ELSE Digit((r * 10) \div q) \o FracStr((r * 10) % q, q)

FloatStr(m, e) ==
    LET q == Pow2(e)
        a == Abs(m)
        frac == FracStr(a % q, q)
    IN (IF m < 0 THEN "-" ELSE "") \o NatStr(a \div q) \o "."
          \o (IF frac = "" THEN "0" ELSE frac)

Fmt(v) ==
    CASE v.t = "int" -> IntStr(v.n)
      [] v.t = "float" -> FloatStr(v.m, v.e)
      [] v.t = "str" -> v.s

(***************************************************************************)
(* Python operators on these values                                        *)
(***************************************************************************)
Unsupported(op, a, b) ==
    Raise("TypeError", "unsupported operand type(s) for " \o op \o ": '"
                          \o TypeName(a) \o "' and '" \o TypeName(b) \o "'")

(* The exact sum of two numbers: an int when both are, a float otherwise. *)
NumAdd(a, b) ==
    IF a.t = "int" /\ b.t = "int" THEN IntV(a.n + b.n)
    ELSE MkFloat(Mant(a) * Pow2(Expo(b)) + Mant(b) * Pow2(Expo(a)),
                 Expo(a) + Expo(b))

NumNeg(a) == IF a.t = "int" THEN IntV(-a.n) ELSE FloatV(-a.m, a.e)

NumMul(a, b) ==
    IF a.t = "int" /\ b.t = "int" THEN IntV(a.n * b.n)
    ELSE MkFloat(Mant(a) * Mant(b), Expo(a) + Expo(b))

(* a < b on numbers: compare the numerators over the common denominator. *)
NumLt(a, b) == Mant(a) * Pow2(Expo(b)) < Mant(b) * Pow2(Expo(a))

NumEq(a, b) == Mant(a) * Pow2(Expo(b)) = Mant(b) * Pow2(Expo(a))

RECURSIVE Repeat(_, _)
Repeat(s, n) == IF n <= 0 THEN "" ELSE s \o Repeat(s, n - 1)

PyAdd(a, b) ==
    CASE IsNum(a) /\ IsNum(b) -> Ok(NumAdd(a, b))
      [] a.t = "str" /\ b.t = "str" -> Ok(StrV(a.s \o b.s))
      [] a.t = "str" /\ b.t # "str" ->
            Raise("TypeError", "can only concatenate str (not \""
                                  \o TypeName(b) \o "\") to str")
      [] OTHER -> Unsupported("+", a, b)

PySub(a, b) ==
    IF IsNum(a) /\ IsNum(b) THEN Ok(NumAdd(a, NumNeg(b)))
    ELSE Unsupported("-", a, b)

PyMul(a, b) ==
    CASE IsNum(a) /\ IsNum(b) -> Ok(NumMul(a, b))
      [] a.t = "str" /\ b.t = "int" -> Ok(StrV(Repeat(a.s, b.n)))
      [] a.t = "int" /\ b.t = "str" -> Ok(StrV(Repeat(b.s, a.n)))
      [] a.t = "str" ->
            Raise("TypeError", "can't multiply sequence by non-int of type '"
                                  \o TypeName(b) \o "'")
      [] OTHER ->
            Raise("TypeError", "can't multiply sequence by non-int of type '"
                                  \o TypeName(a) \o "'")

(* The odd part of a positive integer, and the power of two that remains. *)
RECURSIVE OddPart(_)
OddPart(n) == IF n % 2 = 0 THEN OddPart(n \div 2) ELSE n

RECURSIVE Log2(_)
Log2(n) == IF n <= 1 THEN 0 ELSE 1 + Log2(n \div 2)

(* Whether the quotient a / b is a binary fraction, so that the float the  *)
(* division returns is the exact quotient.                                 *)
ExactQuotient(a, b) ==
    /\ Mant(b) # 0
    /\ (Mant(a) * Pow2(Expo(b))) % OddPart(Abs(Mant(b)) * Pow2(Expo(a))) = 0

(* a / b for b # 0: always a float. *)
NumDiv(a, b) ==
    LET num == Mant(a) * Pow2(Expo(b)) * (IF Mant(b) < 0 THEN -1 ELSE 1)
        den == Abs(Mant(b)) * Pow2(Expo(a))
        odd == OddPart(den)
    IN MkFloat(num \div odd, Log2(den \div odd))

PyDiv(a, b) ==
    IF IsNum(a) /\ IsNum(b)
    THEN IF Mant(b) = 0
         THEN Raise("ZeroDivisionError", "division by zero")
         ELSE Ok(NumDiv(a, b))
    ELSE Unsupported("/", a, b)

(* b == 0: a value of another type is simply not equal. *)
PyEqZero(b) == IsNum(b) /\ Mant(b) = 0

RECURSIVE IntPow(_, _)
IntPow(b, k) == IF k = 0 THEN 1 ELSE b * IntPow(b, k - 1)

(* Whether a number is integral (an int, or a float such as 2.0). *)
IsIntegral(v) == Expo(v) = 0

(* Whether base ** exponent is an int or a binary fraction. *)
ExactPower(base, exponent) ==
    /\ IsIntegral(exponent)
    /\ \/ Mant(exponent) >= 0
       \/ Mant(base) = 0
       \/ OddPart(Abs(Mant(base))) = 1

NumPow(base, exponent) ==
    LET k == Mant(exponent)
        m == IntPow(Mant(base), Abs(k))
        e == Expo(base) * Abs(k)
    IN IF k >= 0
       THEN IF base.t = "int" /\ exponent.t = "int" THEN IntV(m)
            ELSE MkFloat(m, e)
       ELSE \* 1 / (m / 2^e) with |m| a power of two
            MkFloat((IF m < 0 THEN -1 ELSE 1) * Pow2(e), Log2(Abs(m)))

PyPow(base, exponent) ==
    IF IsNum(base) /\ IsNum(exponent)
    THEN IF Mant(base) = 0 /\ Mant(exponent) < 0
         THEN Raise("ZeroDivisionError",
                    "0.0 cannot be raised to a negative power")
         ELSE Ok(NumPow(base, exponent))
    ELSE Unsupported("** or pow()", base, exponent)

(* The order of the strings the requests carry, as Python compares them. *)
StrOrder == <<"", "5", "hi">>

StrIndex(s) == CHOOSE i \in 1..Len(StrOrder) : StrOrder[i] = s

StrLess(s, t) == StrIndex(s) < StrIndex(t)

NotOrdered(op, a, b) ==
    Raise("TypeError", "'" \o op \o "' not supported between instances of '"
                          \o TypeName(a) \o "' and '" \o TypeName(b) \o "'")

PyLt(a, b) ==
    CASE IsNum(a) /\ IsNum(b) -> Ok(NumLt(a, b))
      [] a.t = "str" /\ b.t = "str" -> Ok(StrLess(a.s, b.s))
      [] OTHER -> NotOrdered("<", a, b)

PyGt(a, b) ==
    CASE IsNum(a) /\ IsNum(b) -> Ok(NumLt(b, a))
      [] a.t = "str" /\ b.t = "str" -> Ok(StrLess(b.s, a.s))
      [] OTHER -> NotOrdered(">", a, b)

(* int(): a float is cut towards zero, a string is read as a numeral. *)
PyInt(v) ==
    CASE v.t = "int" -> Ok(v.n)
      [] v.t = "float" ->
            Ok((IF v.m < 0 THEN -1 ELSE 1) * (Abs(v.m) \div Pow2(v.e)))
      [] v.t = "str" ->
            IF v.s = "5" THEN Ok(5)
            ELSE Raise("ValueError", "invalid literal for int() with base 10: '"
                                        \o v.s \o "'")

(* Whether a number >= 0 has a square root that is a binary fraction. *)
EvenExp(v) == IF Expo(v) % 2 = 0 THEN Expo(v) ELSE Expo(v) + 1

EvenMant(v) == IF Expo(v) % 2 = 0 THEN Mant(v) ELSE 2 * Mant(v)

ExactRoot(v) == \E r \in 0..EvenMant(v) : r * r = EvenMant(v)

(* math.sqrt of a number >= 0: always a float. *)
MathSqrt(v) ==
    IF IsNum(v)
    THEN Ok(MkFloat(CHOOSE r \in 0..EvenMant(v) : r * r = EvenMant(v),
                    EvenExp(v) \div 2))
    ELSE Raise("TypeError", "must be real number, not " \o TypeName(v))

(* Python's ints have no upper limit.  A natural number too large for a    *)
(* 32-bit integer is a sequence of limbs, least significant first, each    *)
(* below LimbBase, with no leading zero limb.                              *)
LimbBase == 10000000

(* limbs * k + carry, for a small k. *)
RECURSIVE BigMul(_, _, _)
BigMul(limbs, k, carry) ==
    IF limbs = << >>
    THEN IF carry = 0 THEN << >>
         ELSE <<carry % LimbBase>> \o BigMul(<< >>, k, carry \div LimbBase)
    ELSE LET p == Head(limbs) * k + carry
         IN <<p % LimbBase>> \o BigMul(Tail(limbs), k, p \div LimbBase)

(* The decimal digits of a limb below the first, zeros included. *)
LimbStr(limb) ==
    LET digits == NatStr(limb)
    IN CASE limb < 10 -> "000000" \o digits
         [] limb < 100 -> "00000" \o digits
         [] limb < 1000 -> "0000" \o digits
         [] limb < 10000 -> "000" \o digits
         [] limb < 100000 -> "00" \o digits
         [] limb < 1000000 -> "0" \o digits
         [] OTHER -> digits

(* str() of a natural number given by its limbs. *)
RECURSIVE BigStr(_)
BigStr(limbs) ==
    IF Len(limbs) = 1 THEN NatStr(limbs[1])
    ELSE BigStr(Tail(limbs)) \o LimbStr(Head(limbs))

(* acc * lo * (lo + 1) * ... * hi, by halves: the lower half is worked    *)
(* out (it is never empty) before the upper half is entered, which keeps   *)
(* the nesting of the evaluation logarithmic in hi - lo.                   *)
RECURSIVE TimesRange(_, _, _)
TimesRange(acc, lo, hi) ==
    IF lo > hi THEN acc
    ELSE IF lo = hi THEN BigMul(acc, lo, 0)
    ELSE LET mid == (lo + hi) \div 2
             lower == TimesRange(acc, lo, mid)
         IN IF lower = << >> THEN lower
            ELSE TimesRange(lower, mid + 1, hi)

(* math.factorial of an int >= 0, exact: 1 * 2 * ... * n. *)
MathFactorial(n) == TimesRange(<<1>>, 2, n)

(* random.randint(lo, hi): the draws it can return. *)
RandIntRange(lo, hi) == lo..hi

(***************************************************************************)
(* The result of a handler                                                 *)
(***************************************************************************)
TextContent(text) == [type |-> "text", text |-> text]

TextResourceContents(text, uri) == [type |-> "text", text |-> text, uri |-> uri]

(* return CallToolResult(content=[TextContent(type="text", text=...)]) from *)
(* the branch `branch`; computed says whether the tool's operation ran.    *)
Return(branch, computed, text) ==
    [returned |-> TRUE, branch |-> branch, computed |-> computed,
     raised |-> FALSE, cls |-> "", msg |-> "",
     content |-> <<TextContent(text)>>]

(* The branch raised exc (a Raise) before it returned: no content yet. *)
Throw(branch, computed, exc) ==
    [returned |-> FALSE, branch |-> branch, computed |-> computed,
     raised |-> TRUE, cls |-> exc.cls, msg |-> exc.msg, content |-> << >>]

(* The classes `except Exception` does not catch. *)
BaseOnly == {"SystemExit", "KeyboardInterrupt", "GeneratorExit"}

IsException(cls) == cls \notin BaseOnly

(* arguments.get(key, default) *)
Get(arguments, key, default) ==
    IF key \in DOMAIN arguments THEN arguments[key] ELSE default

MULTIPLICATION_SIGN == "<U+00D7>"

DIVISION_SIGN == "<U+00F7>"

SQUARE_ROOT == "<U+221A>"

(***************************************************************************)
(* simple-calculator: the branches of handle_call_tool                     *)
(***************************************************************************)
(* A slip: a call carrying a key the schema does not declare is refused. *)
CalcAddStrict(arguments) ==
    LET a == Get(arguments, "a", IntV(0))
        b == Get(arguments, "b", IntV(0))
        result == PyAdd(a, b)
    IN IF ~(DOMAIN arguments \subseteq {"a", "b"})
       THEN Return("add", FALSE, "Error: unexpected parameter")
       ELSE IF result.raised THEN Throw("add", TRUE, result)
       ELSE Return("add", TRUE,
                   Fmt(a) \o " + " \o Fmt(b) \o " = " \o Fmt(result.v))

CalcAdd(arguments) ==
    LET a == Get(arguments, "a", IntV(0))
        b == Get(arguments, "b", IntV(0))
        result == PyAdd(a, b)
    IN IF result.raised THEN Throw("add", TRUE, result)
       ELSE Return("add", TRUE,
                   Fmt(a) \o " + " \o Fmt(b) \o " = " \o Fmt(result.v))

(* A slip: the operands are subtracted the wrong way round. *)
CalcSubtractSwapped(arguments) ==
    LET a == Get(arguments, "a", IntV(0))
        b == Get(arguments, "b", IntV(0))
        result == PySub(b, a)
    IN IF result.raised THEN Throw("subtract", TRUE, result)
       ELSE Return("subtract", TRUE,
                   Fmt(a) \o " - " \o Fmt(b) \o " = " \o Fmt(result.v))

CalcSubtract(arguments) ==
    LET a == Get(arguments, "a", IntV(0))
        b == Get(arguments, "b", IntV(0))
        result == PySub(a, b)
    IN IF result.raised THEN Throw("subtract", TRUE, result)
       ELSE Return("subtract", TRUE,
                   Fmt(a) \o " - " \o Fmt(b) \o " = " \o Fmt(result.v))

CalcMultiply(arguments) ==
    LET a == Get(arguments, "a", IntV(0))
        b == Get(arguments, "b", IntV(0))
        result == PyMul(a, b)
    IN IF result.raised THEN Throw("multiply", TRUE, result)
       ELSE Return("multiply", TRUE,
                   Fmt(a) \o " " \o MULTIPLICATION_SIGN \o " " \o Fmt(b)
                      \o " = " \o Fmt(result.v))

(* A slip: no test of b before the division, whose own fault is reported. *)
CalcDivideUnguarded(arguments) ==
    LET a == Get(arguments, "a", IntV(0))
        b == Get(arguments, "b", IntV(1))
        result == PyDiv(a, b)
    IN IF result.raised THEN Throw("divide", TRUE, result)
       ELSE Return("divide", TRUE,
                   Fmt(a) \o " " \o DIVISION_SIGN \o " " \o Fmt(b)
                      \o " = " \o Fmt(result.v))

CalcDivide(arguments) ==
    LET a == Get(arguments, "a", IntV(0))
        b == Get(arguments, "b", IntV(1))
        result == PyDiv(a, b)
    IN IF PyEqZero(b)
       THEN Return("divide", FALSE, "Error: Division by zero is not allowed")
       ELSE IF result.raised THEN Throw("divide", TRUE, result)
       ELSE Return("divide", TRUE,
                   Fmt(a) \o " " \o DIVISION_SIGN \o " " \o Fmt(b)
                      \o " = " \o Fmt(result.v))

CalcPower(arguments) ==
    LET base == Get(arguments, "base", IntV(0))
        exponent == Get(arguments, "exponent", IntV(1))
        result == PyPow(base, exponent)
    IN IF result.raised THEN Throw("power", TRUE, result)
       ELSE Return("power", TRUE,
                   Fmt(base) \o "^" \o Fmt(exponent) \o " = " \o Fmt(result.v))

CalcSquareRoot(arguments) ==
    LET number == Get(arguments, "number", IntV(0))
        negative == PyLt(number, IntV(0))
        result == MathSqrt(number)
    IN IF negative.raised THEN Throw("square_root", FALSE, negative)
       ELSE IF negative.v
       THEN Return("square_root", FALSE,
                   "Error: Cannot calculate square root of negative number")
       ELSE IF result.raised THEN Throw("square_root", TRUE, result)
       ELSE Return("square_root", TRUE,
                   SQUARE_ROOT \o Fmt(number) \o " = " \o Fmt(result.v))

(* rnd is what random.randint returns when the branch reaches it. *)
CalcRandomNumber(arguments, rnd) ==
    LET min_val == Get(arguments, "min", IntV(0))
        max_val == Get(arguments, "max", IntV(100))
        inverted == PyGt(min_val, max_val)
        lo == PyInt(min_val)
        hi == PyInt(max_val)
    IN IF inverted.raised THEN Throw("random_number", FALSE, inverted)
       ELSE IF inverted.v
       THEN Return("random_number", FALSE,
                   "Error: Minimum value cannot be greater than maximum value")
       ELSE IF lo.raised THEN Throw("random_number", FALSE, lo)
       ELSE IF hi.raised THEN Throw("random_number", FALSE, hi)
       ELSE IF RandIntRange(lo.v, hi.v) = {}
       THEN Throw("random_number", FALSE,
                  Raise("ValueError", "empty range for randrange()"))
       ELSE Return("random_number", TRUE,
                   "Random number between " \o Fmt(min_val) \o " and "
                      \o Fmt(max_val) \o ": " \o IntStr(rnd))

(* A slip: the limit is taken one too low, and 170 is refused. *)
CalcFactorialBelowLimit(arguments) ==
    LET number == Get(arguments, "number", IntV(0))
        negative == PyLt(number, IntV(0))
        large == PyGt(number, IntV(169))
        n == PyInt(number)
    IN IF negative.raised THEN Throw("factorial", FALSE, negative)
       ELSE IF negative.v
       THEN Return("factorial", FALSE,
                   "Error: Factorial is not defined for negative numbers")
       ELSE IF large.raised THEN Throw("factorial", FALSE, large)
       ELSE IF large.v
       THEN Return("factorial", FALSE,
                   "Error: Number too large for factorial calculation")
       ELSE IF n.raised THEN Throw("factorial", FALSE, n)
       ELSE Return("factorial", TRUE,
                   Fmt(number) \o "! = " \o BigStr(MathFactorial(n.v)))

CalcFactorial(arguments) ==
    LET number == Get(arguments, "number", IntV(0))
        negative == PyLt(number, IntV(0))
        large == PyGt(number, IntV(170))
        n == PyInt(number)
    IN IF negative.raised THEN Throw("factorial", FALSE, negative)
       ELSE IF negative.v
       THEN Return("factorial", FALSE,
                   "Error: Factorial is not defined for negative numbers")
       ELSE IF large.raised THEN Throw("factorial", FALSE, large)
       ELSE IF large.v
       THEN Return("factorial", FALSE,
                   "Error: Number too large for factorial calculation")
       ELSE IF n.raised THEN Throw("factorial", FALSE, n)
       ELSE Return("factorial", TRUE,
                   Fmt(number) \o "! = " \o BigStr(MathFactorial(n.v)))

(* A slip: the message leaves the requested name out. *)
UnknownToolNameless(name) == Return("else", FALSE, "Unknown tool: ")

UnknownTool(name) == Return("else", FALSE, "Unknown tool: " \o name)

(* A slip: the chain has no branch for factorial, which the catalog lists. *)
CalcTryNoFactorial(name, arguments, rnd) ==
    IF name = "add" THEN CalcAdd(arguments)
    ELSE IF name = "subtract" THEN CalcSubtract(arguments)
    ELSE IF name = "multiply" THEN CalcMultiply(arguments)
    ELSE IF name = "divide" THEN CalcDivide(arguments)
    ELSE IF name = "power" THEN CalcPower(arguments)
    ELSE IF name = "square_root" THEN CalcSquareRoot(arguments)
    ELSE IF name = "random_number" THEN CalcRandomNumber(arguments, rnd)
    ELSE UnknownTool(name)

(* The try block of the calculator's handle_call_tool: the chain of name   *)
(* comparisons.                                                            *)
CalcTry(name, arguments, rnd) ==
    IF name = "add" THEN CalcAdd(arguments)
    ELSE IF name = "subtract" THEN CalcSubtract(arguments)
    ELSE IF name = "multiply" THEN CalcMultiply(arguments)
    ELSE IF name = "divide" THEN CalcDivide(arguments)
    ELSE IF name = "power" THEN CalcPower(arguments)
    ELSE IF name = "square_root" THEN CalcSquareRoot(arguments)
    ELSE IF name = "random_number" THEN CalcRandomNumber(arguments, rnd)
    ELSE IF name = "factorial" THEN CalcFactorial(arguments)
    ELSE UnknownTool(name)

(* A slip: the except block returns a result with no content. *)
ExceptExceptionEmpty(body) ==
    IF body.returned THEN body
    ELSE IF IsException(body.cls)
    THEN [body EXCEPT !.returned = TRUE, !.branch = "except"]
    ELSE body

(* except Exception as e: return the text "Error: " + str(e).  A fault of  *)
(* another class leaves the handler.                                       *)
ExceptException(body) ==
    IF body.returned THEN body
    ELSE IF IsException(body.cls)
    THEN [body EXCEPT !.returned = TRUE, !.branch = "except",
                      !.content = <<TextContent("Error: " \o body.msg)>>]
    ELSE body

CalcHandleCallTool(name, arguments, rnd) ==
    ExceptException(CalcTry(name, arguments, rnd))

(***************************************************************************)
(* template: the branches of handle_call_tool                              *)
(***************************************************************************)
(* eval(expression) on the expressions the requests carry. *)
Eval(expression) ==
    IF expression.t # "str"
    THEN Raise("TypeError", "eval() arg 1 must be a string, bytes or code object")
    ELSE CASE expression.s = "2 + 2" -> Ok(IntV(4))
           [] expression.s = "10 + 5 * 2" -> Ok(IntV(20))
           [] expression.s = "5" -> Ok(IntV(5))
           [] expression.s = "1/0" -> Raise("ZeroDivisionError", "division by zero")
           [] expression.s = "" -> Raise("SyntaxError", "invalid syntax (<string>, line 0)")
           [] expression.s = "hi" -> Raise("NameError", "name 'hi' is not defined")
           [] expression.s = "__import__('sys').exit()" -> Raise("SystemExit", "")

(* A slip: the text is left out when it is empty, and so is the prefix. *)
TmplEchoSkipsEmpty(arguments) ==
    LET text == Get(arguments, "text", StrV(""))
    IN IF text = StrV("") THEN Return("echo", TRUE, "")
       ELSE Return("echo", TRUE, "Echo: " \o Fmt(text))

TmplEcho(arguments) ==
    LET text == Get(arguments, "text", StrV(""))
    IN Return("echo", TRUE, "Echo: " \o Fmt(text))

(* The inner try of the calculate branch catches Exception too. *)
TmplCalculate(arguments) ==
    LET expression == Get(arguments, "expression", StrV(""))
        result == Eval(expression)
    IN IF result.raised
       THEN IF IsException(result.cls)
            THEN [Return("calculate", TRUE, "Error: " \o result.msg)
                     EXCEPT !.raised = TRUE, !.cls = result.cls,
                            !.msg = result.msg]
            ELSE Throw("calculate", TRUE, result)
       ELSE Return("calculate", TRUE, "Result: " \o Fmt(result.v))

TmplTry(name, arguments) ==
    IF name = "echo" THEN TmplEcho(arguments)
    ELSE IF name = "calculate" THEN TmplCalculate(arguments)
    ELSE UnknownTool(name)

TmplHandleCallTool(name, arguments) ==
    ExceptException(TmplTry(name, arguments))

(***************************************************************************)
(* The catalogs: handle_list_tools and handle_list_resources               *)
(***************************************************************************)
Param(name, type, description) ==
    [name |-> name, type |-> type, description |-> description,
     hasDefault |-> FALSE, default |-> IntV(0)]

ParamDefault(name, type, description, default) ==
    [name |-> name, type |-> type, description |-> description,
     hasDefault |-> TRUE, default |-> default]

Tool(name, description, properties, required) ==
    [name |-> name, description |-> description,
     inputSchema |-> [type |-> "object", properties |-> properties,
                      required |-> required]]

CalcHandleListTools ==
    << Tool("add", "Add two numbers together",
            << Param("a", "number", "First number to add"),
               Param("b", "number", "Second number to add") >>,
            <<"a", "b">>),
       Tool("subtract", "Subtract second number from first number",
            << Param("a", "number", "Number to subtract from"),
               Param("b", "number", "Number to subtract") >>,
            <<"a", "b">>),
       Tool("multiply", "Multiply two numbers",
            << Param("a", "number", "First number to multiply"),
               Param("b", "number", "Second number to multiply") >>,
            <<"a", "b">>),
       Tool("divide", "Divide first number by second number",
            << Param("a", "number", "Dividend (number to be divided)"),
               Param("b", "number", "Divisor (number to divide by)") >>,
            <<"a", "b">>),
       Tool("power", "Raise first number to the power of second number",
            << Param("base", "number", "Base number"),
               Param("exponent", "number", "Exponent (power)") >>,
            <<"base", "exponent">>),
       Tool("square_root", "Calculate the square root of a number",
            << Param("number", "number", "Number to find square root of") >>,
            <<"number">>),
       Tool("random_number",
            "Generate a random number between min and max (inclusive)",
            << ParamDefault("min", "number", "Minimum value (inclusive)", IntV(0)),
               ParamDefault("max", "number", "Maximum value (inclusive)", IntV(100)) >>,
            << >>),
       Tool("factorial", "Calculate the factorial of a number (n!)",
            << Param("number", "integer",
                     "Number to calculate factorial for (must be non-negative)") >>,
            <<"number">>) >>

TmplHandleListTools ==
    << Tool("echo", "Echo back the provided text",
            << Param("text", "string", "Text to echo back") >>,
            <<"text">>),
       Tool("calculate", "Perform basic arithmetic calculations",
            << Param("expression", "string",
                     "Mathematical expression to evaluate (e.g., '2 + 2')") >>,
            <<"expression">>) >>

Resource(uri, name, description, mimeType) ==
    [uri |-> uri, name |-> name, description |-> description,
     mimeType |-> mimeType]

CalcHandleListResources ==
    << Resource("calculator://info", "Calculator Information",
                "Information about this simple calculator server", "text/plain"),
       Resource("calculator://help", "Help Documentation",
                "Detailed help and usage examples", "text/markdown"),
       Resource("calculator://examples", "Usage Examples",
                "Example calculations and tool usage", "text/markdown") >>

TmplHandleListResources ==
    << Resource("template://info", "Server Information",
                "Information about this template server", "text/plain"),
       Resource("template://help", "Help Documentation",
                "Help and usage information", "text/markdown") >>

(***************************************************************************)
(* handle_read_resource.  The documents are long literals; the model keeps *)
(* the heading of each.                                                    *)
(***************************************************************************)
CalcInfoText == "Simple Calculator MCP Server"

CalcHelpText == "# Simple Calculator MCP Server Help"

CalcExamplesText == "# Calculator Usage Examples"

TmplInfoText == "MCP Server Template"

TmplHelpText == "# MCP Server Template Help"

ReadReturn(branch, contents) ==
    [returned |-> TRUE, branch |-> branch, raised |-> FALSE, contents |-> contents]

(* A slip: the miss reports the first registered URI, not the requested.   *)
CalcHandleReadResourceFirstUri(uri) ==
    IF uri = "calculator://info"
    THEN ReadReturn("info", <<TextResourceContents(CalcInfoText, uri)>>)
    ELSE IF uri = "calculator://help"
    THEN ReadReturn("help", <<TextResourceContents(CalcHelpText, uri)>>)
    ELSE IF uri = "calculator://examples"
    THEN ReadReturn("examples", <<TextResourceContents(CalcExamplesText, uri)>>)
    ELSE ReadReturn("else",
            <<TextResourceContents("Resource not found: calculator://info", uri)>>)

(* The calculator builds TextResourceContents(type, text, uri=uri).  The   *)
(* try block compares strings and builds literals: nothing in it raises,   *)
(* so the except block of handle_read_resource is never entered.           *)
CalcHandleReadResource(uri) ==
    IF uri = "calculator://info"
    THEN ReadReturn("info", <<TextResourceContents(CalcInfoText, uri)>>)
    ELSE IF uri = "calculator://help"
    THEN ReadReturn("help", <<TextResourceContents(CalcHelpText, uri)>>)
    ELSE IF uri = "calculator://examples"
    THEN ReadReturn("examples", <<TextResourceContents(CalcExamplesText, uri)>>)
    ELSE ReadReturn("else",
            <<TextResourceContents("Resource not found: " \o uri, uri)>>)

(* The template builds TextContent(type, text): a block with no uri. *)
TmplHandleReadResource(uri) ==
    IF uri = "template://info"
    THEN ReadReturn("info", <<TextContent(TmplInfoText)>>)
    ELSE IF uri = "template://help"
    THEN ReadReturn("help", <<TextContent(TmplHelpText)>>)
    ELSE ReadReturn("else", <<TextContent("Resource not found: " \o uri)>>)

(***************************************************************************)
(* The requests a client sends                                             *)
(***************************************************************************)
Servers == {"calculator", "template"}

ToolNames ==
    {"add", "subtract", "multiply", "divide", "power", "square_root",
     "random_number", "factorial", "echo", "calculate", "unknown_tool", ""}

Uris ==
    {"calculator://info", "calculator://help", "calculator://examples",
     "template://info", "template://help", "calculator://missing",
     "file:///etc/hosts", ""}

Numbers == {IntV(-1), IntV(0), IntV(3), IntV(5), FloatV(5, 1)}

(* The parameters the requests to `name` are built from (the names the     *)
(* branch of `name` reads), "" for none.                                   *)
FirstKey(name) ==
    CASE name \in {"add", "subtract", "multiply", "divide"} -> "a"
      [] name = "power" -> "base"
      [] name \in {"square_root", "factorial"} -> "number"
      [] name = "random_number" -> "min"
      [] name = "echo" -> "text"
      [] name = "calculate" -> "expression"
      [] OTHER -> "a"

SecondKey(name) ==
    CASE name \in {"add", "subtract", "multiply", "divide"} -> "b"
      [] name = "power" -> "exponent"
      [] name = "random_number" -> "max"
      [] OTHER -> ""

(* A key no schema declares. *)
ExtraKey == "test"

(* The values a request gives the parameter `key` of the tool `name`; the  *)
(* numbers are those whose results are ints or binary fractions.           *)
ArgValues(name, key) ==
    CASE key = "" -> {}
      [] key = ExtraKey -> {StrV("value")}
      [] name \in {"add", "subtract", "multiply"} -> Numbers \cup {StrV("hi")}
      [] name = "divide" /\ key = "a" -> Numbers \cup {StrV("hi")}
      [] name = "divide" /\ key = "b" ->
            {IntV(-1), IntV(0), IntV(2), FloatV(-1, 1), FloatV(0, 0), StrV("hi")}
      [] name = "power" /\ key = "base" ->
            {IntV(-1), IntV(0), IntV(2), FloatV(-1, 1), StrV("hi")}
      [] name = "power" /\ key = "exponent" ->
            {IntV(-1), IntV(0), IntV(2), IntV(3), StrV("hi")}
      [] name = "square_root" ->
            {IntV(-1), IntV(0), IntV(4), IntV(64), FloatV(9, 2), FloatV(-1, 1),
             StrV("hi")}
      [] name = "random_number" /\ key = "min" ->
            {IntV(98), FloatV(197, 1), IntV(101), StrV("5"), StrV("hi")}
      [] name = "random_number" /\ key = "max" ->
            {IntV(-1), IntV(2), FloatV(199, 1), StrV("5"), StrV("hi")}
      [] name = "factorial" ->
            {IntV(-1), IntV(0), IntV(5), IntV(13), IntV(170), IntV(171),
             FloatV(5, 1), FloatV(-1, 1), StrV("hi")}
      [] name = "echo" -> {StrV("hi"), StrV(""), StrV("{text}"), IntV(5)}
      [] name = "calculate" ->
            {StrV("2 + 2"), StrV("10 + 5 * 2"), StrV("1/0"), StrV(""),
             StrV("hi"), StrV("__import__('sys').exit()"), IntV(5)}
      [] OTHER -> {IntV(2), StrV("hi")}

Absent == [t |-> "absent"]

Optional(values) == values \cup {Absent}

(* The argument mapping with the given values under the given keys, a key  *)
(* whose value is Absent left out.                                         *)
ArgMap(k1, v1, k2, v2, v3) ==
    LET given == [k \in {k1, k2, ExtraKey} |->
                     IF k = k1 THEN v1 ELSE IF k = k2 THEN v2 ELSE v3]
    IN [k \in {k \in {k1, k2, ExtraKey} : k # "" /\ given[k] # Absent}
          |-> given[k]]

(* The requests to a name the server has a branch for carry the values of  *)
(* that tool; the others carry a parameter "a" and the undeclared key.     *)
Branches(srv) ==
    IF srv = "calculator"
    THEN {"add", "subtract", "multiply", "divide", "power", "square_root",
          "random_number", "factorial"}
    ELSE {"echo", "calculate"}

Arguments(srv, name) ==
    LET tool == IF name \in Branches(srv) THEN name ELSE "unknown_tool"
    IN { ArgMap(FirstKey(tool), v1, SecondKey(tool), v2, v3) :
           v1 \in Optional(ArgValues(tool, FirstKey(tool))),
           v2 \in Optional(ArgValues(tool, SecondKey(tool))),
           v3 \in Optional(ArgValues(tool, ExtraKey)) }

(* What random.randint may return for this call: the draws of the range    *)
(* the random_number branch reaches, and a single unused value otherwise.  *)
Draws(srv, name, arguments) ==
    LET min_val == Get(arguments, "min", IntV(0))
        max_val == Get(arguments, "max", IntV(100))
        inverted == PyGt(min_val, max_val)
        lo == PyInt(min_val)
        hi == PyInt(max_val)
    IN IF /\ srv = "calculator" /\ name = "random_number"
          /\ ~inverted.raised /\ ~inverted.v
          /\ ~lo.raised /\ ~hi.raised
          /\ RandIntRange(lo.v, hi.v) # {}
       THEN RandIntRange(lo.v, hi.v)
       ELSE {0}

(***************************************************************************)
(* The handlers of the server a session is connected to                    *)
(***************************************************************************)
RECURSIVE Reverse(_)
Reverse(seq) == IF seq = << >> THEN << >> ELSE Reverse(Tail(seq)) \o <<Head(seq)>>

(* A slip: the catalog comes out in the opposite order. *)
HandleListToolsReversed(srv) ==
    Reverse(IF srv = "calculator" THEN CalcHandleListTools
            ELSE TmplHandleListTools)

(* A slip: the catalog is one list kept between requests, and every       *)
(* request served takes its last entry off.                                *)
HandleListToolsConsumed(srv) ==
    LET catalog == IF srv = "calculator" THEN CalcHandleListTools
                   ELSE TmplHandleListTools
    IN SubSeq(catalog, 1, Len(catalog) - served)

HandleListTools(srv) ==
    IF srv = "calculator" THEN CalcHandleListTools ELSE TmplHandleListTools

HandleListResources(srv) ==
    IF srv = "calculator" THEN CalcHandleListResources
    ELSE TmplHandleListResources

HandleCallTool(srv, name, arguments, rnd) ==
    IF srv = "calculator" THEN CalcHandleCallTool(name, arguments, rnd)
    ELSE TmplHandleCallTool(name, arguments)

HandleReadResource(srv, uri) ==
    IF srv = "calculator" THEN CalcHandleReadResource(uri)
    ELSE TmplHandleReadResource(uri)

(***************************************************************************)
(* The session: Uninitialized --initialize()--> Ready --close()--> Closed  *)
(***************************************************************************)
SessionStates == {"Uninitialized", "Ready", "Closed"}

(* A slip: a closed session still serves. *)
DispatchFaultOpenAfterClose(st) ==
    IF st = "Uninitialized" THEN "NotInitializedError" ELSE "none"

(* The fault a dispatch fails with in this state, "none" when it is served. *)
DispatchFault(st) ==
    IF st = "Uninitialized" THEN "NotInitializedError"
    ELSE IF st = "Closed" THEN "SessionClosedError"
    ELSE "none"

InitializeFault(st) ==
    IF st = "Ready" THEN "AlreadyInitializedError"
    ELSE IF st = "Closed" THEN "SessionClosedError"
    ELSE "none"

AfterInitialize(st) == IF st = "Uninitialized" THEN "Ready" ELSE st

AfterClose(st) == "Closed"

(* A slip: the second close() fails like any other call on a closed session. *)
CloseFaultWhenClosed(st) == IF st = "Closed" THEN "SessionClosedError" ELSE "none"

(* close() raises nothing, in any state. *)
CloseFault(st) == "none"

NoRequest == [op |-> "none"]

NoResponse == [returned |-> FALSE, branch |-> "none"]

(* No test client drives the session. *)
NoClient == [pc |-> "none"]

(* A slip: the client sends its next call without awaiting the last. *)
ClientMaySendPipelined == TRUE

Init ==
    /\ server \in Servers
    /\ state = "Uninitialized"
    /\ prior = "Uninitialized"
    /\ request = NoRequest
    /\ response = NoResponse
    /\ fault = "none"
    /\ drawn = << >>
    /\ served = 0
    /\ trace = << >>
    /\ client = NoClient

Initialize ==
    /\ state' = AfterInitialize(state)
    /\ fault' = InitializeFault(state)
    /\ prior' = state
    /\ request' = [op |-> "initialize"]
    /\ response' = NoResponse
    /\ drawn' = << >>
    /\ UNCHANGED <<server, served, trace, client>>

Close ==
    /\ state' = AfterClose(state)
    /\ fault' = CloseFault(state)
    /\ prior' = state
    /\ request' = [op |-> "close"]
    /\ response' = NoResponse
    /\ drawn' = << >>
    /\ UNCHANGED <<server, served, trace, client>>

(* One request through the session: refused with the state's fault, or     *)
(* handed to the handler, whose answer is the response.                    *)
Dispatch(req, answer) ==
    /\ served < MaxRequests
    /\ served' = served + 1
    /\ request' = req
    /\ fault' = DispatchFault(state)
    /\ response' = IF DispatchFault(state) = "none" THEN answer ELSE NoResponse
    /\ prior' = state
    /\ UNCHANGED <<server, state, trace, client>>

ListTools ==
    /\ Dispatch([op |-> "ListTools"],
                [returned |-> TRUE, branch |-> "list",
                 tools |-> HandleListTools(server)])
    /\ drawn' = << >>

ListResources ==
    /\ Dispatch([op |-> "ListResources"],
                [returned |-> TRUE, branch |-> "list",
                 resources |-> HandleListResources(server)])
    /\ drawn' = << >>

(* The draws random.randint made in a call the session hands over: one in  *)
(* a random_number call that reaches it, none otherwise.                   *)
Drawn(srv, st, name, arguments, rnd) ==
    IF /\ DispatchFault(st) = "none"
       /\ srv = "calculator"
       /\ name = "random_number"
       /\ CalcRandomNumber(arguments, rnd).computed
    THEN <<rnd>>
    ELSE << >>

CallTool ==
    \E name \in ToolNames :
      \E arguments \in Arguments(server, name) :
        \E rnd \in Draws(server, name, arguments) :
          /\ Dispatch([op |-> "CallTool", name |-> name,
                       arguments |-> arguments],
                      HandleCallTool(server, name, arguments, rnd))
          /\ drawn' = Drawn(server, state, name, arguments, rnd)

ReadResource ==
    \E uri \in Uris :
      /\ Dispatch([op |-> "ReadResource", uri |-> uri],
                  HandleReadResource(server, uri))
      /\ drawn' = << >>

Next ==
    \/ Initialize
    \/ Close
    \/ ListTools
    \/ ListResources
    \/ CallTool
    \/ ReadResource

Spec == Init /\ [][Next]_vars

(***************************************************************************)
(* What the catalogs register                                              *)
(***************************************************************************)
RegisteredNames(srv) ==
    {HandleListTools(srv)[i].name : i \in 1..Len(HandleListTools(srv))}

RegisteredUris(srv) ==
    {HandleListResources(srv)[i].uri : i \in 1..Len(HandleListResources(srv))}

SeqRange(seq) == {seq[i] : i \in 1..Len(seq)}

(* The tool's catalog entry, and the parameters its schema requires. *)
ToolSpec(srv, name) ==
    CHOOSE tool \in SeqRange(HandleListTools(srv)) : tool.name = name

RequiredParams(srv, name) == SeqRange(ToolSpec(srv, name).inputSchema.required)

ParamType(srv, name, key) ==
    (CHOOSE p \in SeqRange(ToolSpec(srv, name).inputSchema.properties) :
        p.name = key).type

(* The last call was a request of kind op that the session handed to the   *)
(* handler.                                                                *)
Handled(op) == request.op = op /\ fault = "none"

RequestOps == {"ListTools", "ListResources", "CallTool", "ReadResource"}

(***************************************************************************)
(* The claims                                                              *)
(***************************************************************************)

(* C1: a CallTool whose name is not a registered tool is answered, whatever *)
(* its arguments, by a returned result with the single text block          *)
(* "Unknown tool: <name>", <name> being the requested name; no fault       *)
(* leaves the handler.                                                     *)
C1_UnknownToolAnswered ==
    (Handled("CallTool") /\ request.name \notin RegisteredNames(server))
      => /\ response.returned
         /\ ~response.raised
         /\ response.content = <<TextContent("Unknown tool: " \o request.name)>>

C1_Witness ==
    /\ Handled("CallTool")
    /\ server = "calculator"
    /\ request.name = "unknown_tool"
    /\ ExtraKey \in DOMAIN request.arguments
    /\ response.returned
    /\ response.content[1].text = "Unknown tool: unknown_tool"

(* C2: a CallTool whose handler raises any fault is answered by a returned *)
(* result with a non-empty text block; the fault never leaves the handler. *)
C2_FaultsConverted ==
    (Handled("CallTool") /\ response.raised)
      => /\ response.returned
         /\ Len(response.content) >= 1
         /\ response.content[1].text # ""

(* C3: a CallTool to a registered tool that leaves out a parameter the     *)
(* tool's schema requires is answered by a validation failure, and the     *)
(* tool's computation is not performed.                                    *)
C3_MissingRequiredRejected ==
    (/\ Handled("CallTool")
     /\ request.name \in RegisteredNames(server)
     /\ RequiredParams(server, request.name) \ DOMAIN request.arguments # {})
      => /\ response.branch = "validation"
         /\ ~response.computed

(* C4: a ReadResource of a URI that is not registered is answered by a     *)
(* returned result whose text is "Resource not found: <uri>", <uri> being  *)
(* the requested URI.                                                      *)
C4_ResourceNotFoundEchoesUri ==
    (Handled("ReadResource") /\ request.uri \notin RegisteredUris(server))
      => /\ response.returned
         /\ Len(response.contents) = 1
         /\ response.contents[1].text = "Resource not found: " \o request.uri

C4_Witness ==
    /\ Handled("ReadResource")
    /\ server = "calculator"
    /\ request.uri = "calculator://missing"
    /\ response.returned
    /\ response.contents[1].text = "Resource not found: calculator://missing"

(* C5: a tool name is in the ListTools catalog exactly when CallTool with  *)
(* that name reaches a tool body (not the "Unknown tool" answer), and a    *)
(* URI is in the ListResources catalog exactly when ReadResource of it     *)
(* returns a document (not the "Resource not found" answer).               *)
C5_CatalogsMatchDispatch ==
    /\ Handled("CallTool")
         => (request.name \in RegisteredNames(server)
               <=> response.branch # "else")
    /\ Handled("ReadResource")
         => (request.uri \in RegisteredUris(server)
               <=> response.branch # "else")

C5_Witness ==
    /\ Handled("CallTool")
    /\ server = "calculator"
    /\ request.name = "factorial"
    /\ request.name \in RegisteredNames(server)
    /\ response.branch = "factorial"

(* C6: ListTools returns every registered tool once, in registration       *)
(* order, each with a description and a schema whose required parameters   *)
(* are among its properties: add, subtract, multiply, divide, power,       *)
(* square_root, random_number, factorial for the calculator and echo,      *)
(* calculate for the template.                                             *)
C6_ListToolsInOrder ==
    Handled("ListTools")
      => /\ [i \in 1..Len(response.tools) |-> response.tools[i].name]
              = (IF server = "calculator"
                 THEN <<"add", "subtract", "multiply", "divide", "power",
                        "square_root", "random_number", "factorial">>
                 ELSE <<"echo", "calculate">>)
         /\ \A i \in 1..Len(response.tools) :
              /\ response.tools[i].description # ""
              /\ SeqRange(response.tools[i].inputSchema.required)
                   \subseteq {p.name : p \in
                                SeqRange(response.tools[i].inputSchema.properties)}

C6_Witness ==
    /\ Handled("ListTools")
    /\ server = "calculator"
    /\ Len(response.tools) = 8
    /\ response.tools[8].name = "factorial"
    /\ response.tools[8].inputSchema.properties[1].type = "integer"

(* C7: a request made while the session is Uninitialized fails with        *)
(* NotInitializedError, a call made after close() fails with               *)
(* SessionClosedError, and in neither state is a handler run.              *)
C7_InitializeBeforeUse ==
    /\ (request.op \in RequestOps /\ prior = "Uninitialized")
         => (fault = "NotInitializedError" /\ response = NoResponse)
    /\ (request.op \in RequestOps \cup {"initialize"} /\ prior = "Closed")
         => (fault = "SessionClosedError" /\ response = NoResponse)
    /\ (request.op \in RequestOps /\ response # NoResponse) => prior = "Ready"

C7_Witness ==
    /\ request.op = "CallTool"
    /\ prior = "Closed"
    /\ fault = "SessionClosedError"
    /\ response = NoResponse

(* C8: close() on a session that is already Closed leaves it Closed and    *)
(* raises no fault.                                                        *)
C8_CloseIdempotent ==
    (request.op = "close" /\ prior = "Closed")
      => (state = "Closed" /\ fault = "none")

C8_Witness ==
    /\ request.op = "close"
    /\ prior = "Closed"
    /\ state = "Closed"
    /\ fault = "none"

(* C9: every content block of every ReadResource response carries the URI  *)
(* that was requested, on both servers.                                    *)
C9_ReadBlocksTagged ==
    Handled("ReadResource")
      => \A i \in 1..Len(response.contents) :
           /\ "uri" \in DOMAIN response.contents[i]
           /\ response.contents[i].uri = request.uri

(* C10: factorial, whose parameter is declared integer, computes nothing   *)
(* for a number that is not integral; a parameter declared number accepts  *)
(* any number.                                                             *)
C10_IntegerRejectsFraction ==
    /\ (/\ Handled("CallTool")
        /\ request.name \in RegisteredNames(server)
        /\ \E k \in DOMAIN request.arguments :
              /\ k \in {p.name : p \in SeqRange(ToolSpec(server, request.name)
                                                  .inputSchema.properties)}
              /\ ParamType(server, request.name, k) = "integer"
              /\ request.arguments[k].t = "float"
              /\ ~IsIntegral(request.arguments[k]))
         => ~response.computed
    /\ (/\ Handled("CallTool")
        /\ request.name \in RegisteredNames(server)
        /\ \A k \in DOMAIN request.arguments :
              /\ k \in {p.name : p \in SeqRange(ToolSpec(server, request.name)
                                                  .inputSchema.properties)}
              /\ ParamType(server, request.name, k) = "number"
              /\ IsNum(request.arguments[k]))
         => response.branch # "validation"

(***************************************************************************)
(* The parameters of a call, as the schema declares them                   *)
(***************************************************************************)
DeclaredParams(srv, name) == SeqRange(ToolSpec(srv, name).inputSchema.properties)

(* The declared parameters the arguments leave out. *)
OmittedParams(srv, name, arguments) ==
    {p \in DeclaredParams(srv, name) : p.name \notin DOMAIN arguments}

(* The arguments with value given under key. *)
With(arguments, key, value) ==
    [k \in DOMAIN arguments \cup {key} |->
        IF k = key THEN value ELSE arguments[k]]

(* What random.randint returned in the last call, for replaying the call. *)
LastDraw == IF drawn = << >> THEN 0 ELSE drawn[1]

(* C11: when a call to a registered tool leaves out a declared parameter,  *)
(* the answer is the one the call gets with the parameter set to the       *)
(* default its schema declares (0 for min and 100 for max of               *)
(* random_number); a parameter with no declared default is given no value, *)
(* so the tool's operation does not run without it.                        *)
C11_DefaultsFromSchema ==
    (Handled("CallTool") /\ request.name \in RegisteredNames(server))
      => \A p \in OmittedParams(server, request.name, request.arguments) :
            IF p.hasDefault
            THEN response = HandleCallTool(server, request.name,
                               With(request.arguments, p.name, p.default),
                               LastDraw)
            ELSE ~response.computed

(* The keys of the arguments that the tool's schema does not declare. *)
UndeclaredKeys(srv, name, arguments) ==
    DOMAIN arguments \ {p.name : p \in DeclaredParams(srv, name)}

(* The arguments without the given keys. *)
Without(arguments, keys) == [k \in DOMAIN arguments \ keys |-> arguments[k]]

C13_EchoReturnsText ==
    (/\ Handled("CallTool")
     /\ server = "template"
     /\ request.name = "echo"
     /\ "text" \in DOMAIN request.arguments
     /\ request.arguments["text"].t = "str")
      => /\ response.returned
         /\ response.content
              = <<TextContent("Echo: " \o request.arguments["text"].s)>>

C13_Witness ==
    /\ Handled("CallTool")
    /\ server = "template"
    /\ request.name = "echo"
    /\ request.arguments = [text |-> StrV("hi")]
    /\ response.content = <<[type |-> "text", text |-> "Echo: hi"]>>

(***************************************************************************)
(* Arithmetic on the values of numbers, for stating what a tool reports    *)
(***************************************************************************)
(* r = a + b and r = a * b as rationals, cross-multiplied. *)
IsSum(r, a, b) ==
    Mant(r) * Pow2(Expo(a) + Expo(b))
      = (Mant(a) * Pow2(Expo(b)) + Mant(b) * Pow2(Expo(a))) * Pow2(Expo(r))

IsProduct(r, a, b) ==
    Mant(r) * Pow2(Expo(a) + Expo(b)) = Mant(a) * Mant(b) * Pow2(Expo(r))

(* The numbers a result of an operation on a and b can be: ints and binary *)
(* fractions up to the size of the operands' product.                      *)
ResultsOf(a, b) ==
    LET k == 4 * (Abs(Mant(a)) + 1) * (Abs(Mant(b)) + 1)
    IN {IntV(n) : n \in -k..k}
         \cup {FloatV(m, e) : m \in -k..k, e \in 0..(Expo(a) + Expo(b))}

(* Python's result type: an int from two ints, a float otherwise. *)
SameKind(r, a, b) == (r.t = "int") <=> (a.t = "int" /\ b.t = "int")

(* The call gave both operands a and b, and both are numbers. *)
BothNumeric(arguments) ==
    /\ {"a", "b"} \subseteq DOMAIN arguments
    /\ IsNum(arguments["a"])
    /\ IsNum(arguments["b"])

(* The response is the single text block a sign b = r. *)
Reports(a, sign, b, r) ==
    /\ response.returned
    /\ response.content
         = <<TextContent(Fmt(a) \o " " \o sign \o " " \o Fmt(b) \o " = "
                            \o Fmt(r))>>

(* C14: for numbers a and b, add returns the single text "<a> + <b> = <r>" *)
(* with r = a + b, subtract "<a> - <b> = <r>" with r + b = a, and multiply *)
(* "<a> x <b> = <r>" with r = a * b (x the multiplication sign).           *)
C14_ArithmeticReported ==
    (/\ Handled("CallTool")
     /\ server = "calculator"
     /\ request.name \in {"add", "subtract", "multiply"}
     /\ BothNumeric(request.arguments))
      => LET a == request.arguments["a"]
             b == request.arguments["b"]
         IN \E r \in ResultsOf(a, b) :
              /\ SameKind(r, a, b)
              /\ CASE request.name = "add" ->
                        IsSum(r, a, b) /\ Reports(a, "+", b, r)
                   [] request.name = "subtract" ->
                        IsSum(a, r, b) /\ Reports(a, "-", b, r)
                   [] request.name = "multiply" ->
                        IsProduct(r, a, b)
                          /\ Reports(a, MULTIPLICATION_SIGN, b, r)

C14_Witness ==
    /\ Handled("CallTool")
    /\ server = "calculator"
    /\ request.name = "add"
    /\ request.arguments = [a |-> IntV(5), b |-> IntV(3)]
    /\ response.content = <<TextContent("5 + 3 = 8")>>

(* The floats a quotient a / b can be: dividing by b adds at most          *)
(* |Mant(b)| binary places.                                                *)
QuotientsOf(a, b) ==
    LET k == 4 * (Abs(Mant(a)) + 1) * (Abs(Mant(b)) + 1)
    IN {FloatV(m, e) : m \in -k..k, e \in 0..(Expo(a) + Abs(Mant(b)))}

ParamValue(srv, name, arguments, key) ==
    IF key \in DOMAIN arguments THEN arguments[key]
    ELSE (CHOOSE p \in DeclaredParams(srv, name) : p.name = key).default

(* C16: random_number with numbers min <= max reports a result r with      *)
(* min <= r <= max; with min > max it returns "Error: Minimum value cannot *)
(* be greater than maximum value" and draws no number.                     *)
C16_RandomWithinBounds ==
    (/\ Handled("CallTool")
     /\ server = "calculator"
     /\ request.name = "random_number"
     /\ IsNum(ParamValue(server, "random_number", request.arguments, "min"))
     /\ IsNum(ParamValue(server, "random_number", request.arguments, "max")))
      => LET min_val == ParamValue(server, "random_number",
                                   request.arguments, "min")
             max_val == ParamValue(server, "random_number",
                                   request.arguments, "max")
         IN IF Mant(max_val) * Pow2(Expo(min_val))
                 < Mant(min_val) * Pow2(Expo(max_val))
            THEN /\ response.returned
                 /\ response.content
                      = <<TextContent("Error: Minimum value cannot be greater than maximum value")>>
                 /\ drawn = << >>
            ELSE /\ response.returned
                 /\ Len(drawn) = 1
                 /\ response.content
                      = <<TextContent("Random number between " \o Fmt(min_val)
                                         \o " and " \o Fmt(max_val) \o ": "
                                         \o IntStr(drawn[1]))>>
                 /\ Mant(min_val) <= drawn[1] * Pow2(Expo(min_val))
                 /\ drawn[1] * Pow2(Expo(max_val)) <= Mant(max_val)

(* n! in decimal for the integers the requests carry, written out. *)
ExactFactorial ==
    (0 :> "1") @@ (5 :> "120") @@ (13 :> "6227020800")
      @@ (170 :> "725741561530799896739672821112926311471699168129645137654357"
                 \o "779890056184340170615785235074924261745951149099123783852077"
                 \o "666602256544275302532890077320751090240043028005829560396661"
                 \o "259965825710439855829425756896631343961226257109494680671120"
                 \o "556888045719334021266145280000000000000000000000000000000000"
                 \o "0000000")

(* C17: factorial of a number below 0 returns "Error: Factorial is not     *)
(* defined for negative numbers", of a number above 170 "Error: Number too *)
(* large for factorial calculation", neither computing a factorial; of an  *)
(* integer n from 0 to 170 it returns "<n>! = <n!>" with every digit of    *)
(* n! (5 gives 120).                                                       *)
C17_FactorialPartition ==
    (/\ Handled("CallTool")
     /\ server = "calculator"
     /\ request.name = "factorial"
     /\ "number" \in DOMAIN request.arguments
     /\ IsNum(request.arguments["number"]))
      => LET number == request.arguments["number"]
         IN /\ response.returned
            /\ Mant(number) < 0
                 => /\ response.content
                         = <<TextContent("Error: Factorial is not defined for negative numbers")>>
                    /\ ~response.computed
            /\ Mant(number) > 170 * Pow2(Expo(number))
                 => /\ response.content
                         = <<TextContent("Error: Number too large for factorial calculation")>>
                    /\ ~response.computed
            /\ (number.t = "int" /\ number.n \in 0..170)
                 => /\ number.n \in DOMAIN ExactFactorial
                    /\ response.content
                         = <<TextContent(IntStr(number.n) \o "! = "
                                            \o ExactFactorial[number.n])>>
                    /\ response.computed

C17_Witness ==
    /\ Handled("CallTool")
    /\ server = "calculator"
    /\ request.name = "factorial"
    /\ request.arguments = [number |-> IntV(170)]
    /\ response.computed
    /\ response.content[1].text = "170! = " \o ExactFactorial[170]

(***************************************************************************)
(* The test client: what call_tool and read_resource make of a result      *)
(***************************************************************************)
(* if result.content: the text of the first block; else: "No content". *)
ClientExtract(blocks) ==
    IF blocks # << >>
    THEN [branch |-> "content", text |-> blocks[1].text]
    ELSE [branch |-> "no content", text |-> ""]

(* C18: every CallTool and ReadResource response holds exactly one text    *)
(* block, whichever path the handler took (known name, unknown name,       *)
(* domain error, caught fault), so the client never takes its "No content" *)
(* branch; the calculator answers every request with such a response.      *)
C18_OneTextBlock ==
    /\ Handled("CallTool")
         => /\ server = "calculator" => response.returned
            /\ response.returned
                 => /\ Len(response.content) = 1
                    /\ response.content[1].type = "text"
                    /\ ClientExtract(response.content).branch = "content"
    /\ Handled("ReadResource")
         => /\ response.returned
            /\ Len(response.contents) = 1
            /\ response.contents[1].type = "text"
            /\ ClientExtract(response.contents).branch = "content"

C18_Witness ==
    /\ Handled("CallTool")
    /\ server = "calculator"
    /\ request.name = "add"
    /\ request.arguments = [a |-> StrV("hi"), b |-> IntV(3)]
    /\ response.raised
    /\ response.branch = "except"
    /\ Len(response.content) = 1
    /\ response.content[1].text
         = "Error: can only concatenate str (not \"int\") to str"

(***************************************************************************)
(* The session followed event by event.  A request is sent by the client,  *)
(* handled by the server and answered.  The loop that takes requests off   *)
(* the transport belongs to the imported mcp package, so the server may    *)
(* take up any request that has arrived and answer any it has handled.     *)
(* A handler is one step: the bodies of handle_call_tool and               *)
(* handle_read_resource contain no await, so the event loop cannot leave   *)
(* one before it returns.                                                  *)
(***************************************************************************)
Event(ev, id, op) == [ev |-> ev, id |-> id, op |-> op]

(* The requests an event of kind ev has happened to. *)
IdsOf(ev) == {trace[i].id : i \in {j \in 1..Len(trace) : trace[j].ev = ev}}

OpOf(id) == (CHOOSE e \in SeqRange(trace) : e.ev = "send" /\ e.id = id).op

(* result = await self.session.call_tool(name, arguments): the client goes *)
(* on to its next call only when the last one has been answered.           *)
ClientMaySend == IdsOf("send") = IdsOf("response")

(* The session after connect(): constructed and initialised. *)
SerialInit ==
    /\ server \in Servers
    /\ state = AfterInitialize("Uninitialized")
    /\ prior = "Uninitialized"
    /\ request = [op |-> "initialize"]
    /\ response = NoResponse
    /\ fault = InitializeFault("Uninitialized")
    /\ drawn = << >>
    /\ served = 0
    /\ trace = << >>
    /\ client = NoClient

SendRequest ==
    \E op \in RequestOps :
      /\ ClientMaySend
      /\ Cardinality(IdsOf("send")) < MaxSent
      /\ trace' = Append(trace, Event("send", Cardinality(IdsOf("send")) + 1, op))
      /\ UNCHANGED <<session, client>>

HandleRequest ==
    \E id \in IdsOf("send") \ IdsOf("handle") :
      /\ trace' = Append(trace, Event("handle", id, OpOf(id)))
      /\ UNCHANGED <<session, client>>

SendResponse ==
    \E id \in IdsOf("handle") \ IdsOf("response") :
      /\ trace' = Append(trace, Event("response", id, OpOf(id)))
      /\ UNCHANGED <<session, client>>

SerialNext ==
    \/ SendRequest
    \/ HandleRequest
    \/ SendResponse

SerialSpec == SerialInit /\ [][SerialNext]_vars

Outcomes == {"none", "ConnectionError", "KeyboardInterrupt"}

(* The command line: no argument, or the one in sys.argv[1]. *)
Argv ==
    {"", "basic", "BASIC", "errors", "interactive", "help", "info",
     "examples", "bogus"}

(* sys.argv[1].lower(), on the command lines of Argv *)
Lower(arg) == IF arg = "BASIC" THEN "basic" ELSE arg

ToolCall(name, arguments) ==
    [op |-> "CallTool", name |-> name, arguments |-> arguments]

ResourceRead(uri) == [op |-> "ReadResource", uri |-> uri]

RunBasicTests ==
    << ToolCall("add", [a |-> IntV(5), b |-> IntV(3)]),
       ToolCall("subtract", [a |-> IntV(10), b |-> IntV(4)]),
       ToolCall("multiply", [a |-> IntV(6), b |-> IntV(7)]),
       ToolCall("divide", [a |-> IntV(15), b |-> IntV(3)]),
       ToolCall("power", [base |-> IntV(2), exponent |-> IntV(8)]),
       ToolCall("square_root", [number |-> IntV(64)]),
       ToolCall("factorial", [number |-> IntV(5)]),
       ToolCall("random_number", [min |-> IntV(1), max |-> IntV(10)]) >>

RunErrorTests ==
    << ToolCall("divide", [a |-> IntV(10), b |-> IntV(0)]),
       ToolCall("square_root", [number |-> IntV(-4)]),
       ToolCall("factorial", [number |-> IntV(-1)]),
       ToolCall("random_number", [min |-> IntV(10), max |-> IntV(5)]),
       ToolCall("unknown_tool", [test |-> StrV("value")]) >>

RunInteractiveDemo ==
    << [op |-> "ListTools"],
       ToolCall("add", [a |-> IntV(25), b |-> IntV(17)]),
       ToolCall("multiply", [a |-> IntV(12), b |-> IntV(8)]),
       ToolCall("power", [base |-> IntV(3), exponent |-> IntV(4)]),
       ToolCall("square_root", [number |-> IntV(121)]),
       ToolCall("factorial", [number |-> IntV(6)]),
       ToolCall("random_number", [min |-> IntV(1), max |-> IntV(100)]),
       ToolCall("random_number", [min |-> IntV(1), max |-> IntV(100)]),
       ToolCall("random_number", [min |-> IntV(1), max |-> IntV(100)]) >>

RunComprehensiveTest ==
    << [op |-> "ListTools"], [op |-> "ListResources"],
       ResourceRead("calculator://help") >>
    \o RunBasicTests \o RunErrorTests \o RunInteractiveDemo

(* The requests main issues between connect and the end of its try block,  *)
(* in order: none for a test type it does not know.                        *)
Script(arg) ==
    IF arg = "" THEN RunComprehensiveTest
    ELSE CASE Lower(arg) = "basic" -> RunBasicTests
           [] Lower(arg) = "errors" -> RunErrorTests
           [] Lower(arg) = "interactive" -> RunInteractiveDemo
           [] Lower(arg) = "help" -> <<ResourceRead("calculator://help")>>
           [] Lower(arg) = "info" -> <<ResourceRead("calculator://info")>>
           [] Lower(arg) = "examples" ->
                <<ResourceRead("calculator://examples")>>
           [] OTHER -> << >>

(* A slip: disconnect is the last statement after the except clause, not   *)
(* a finally block, so what the clause does not catch leaves main at once. *)
AfterRaiseNoFinally(cls) == IF IsException(cls) THEN "except" ELSE "done"

(* Where main goes when a statement of its try block raises cls: to the    *)
(* except clause if that catches it, and to the finally block if not.      *)
AfterRaise(cls) == IF IsException(cls) THEN "except" ELSE "finally"

(* main's position after an awaited call of the try block with the given   *)
(* outcome: on to `next` if it returned.                                   *)
Continue(outcome, next) == IF outcome = "none" THEN next ELSE AfterRaise(outcome)

(* client = CalculatorTestClient(), and main about to enter its try block *)
NewClient(arg) ==
    [pc |-> "connect", session |-> "None", argv |-> arg, step |-> 1,
     disconnects |-> 0, closes |-> 0, raised |-> "none"]

ClientInit ==
    /\ server = "calculator"
    /\ state = "Uninitialized"
    /\ prior = "Uninitialized"
    /\ request = NoRequest
    /\ response = NoResponse
    /\ fault = "none"
    /\ drawn = << >>
    /\ served = 0
    /\ trace = << >>
    /\ client \in {NewClient(arg) : arg \in Argv}

(* connect, up to self.session = ClientSession(server_params): the session *)
(* object exists once both constructors have returned.                     *)
CreateSession ==
    /\ client.pc = "connect"
    /\ \E outcome \in Outcomes :
         client' = [client EXCEPT
                      !.pc = Continue(outcome, "initialize"),
                      !.session = IF outcome = "none" THEN "ClientSession"
                                  ELSE @,
                      !.raised = outcome]
    /\ UNCHANGED session
    /\ UNCHANGED trace

(* connect, await self.session.initialize(): the session is initialised if *)
(* the call returns and left as it was if it raises.                       *)
InitializeSession ==
    /\ client.pc = "initialize"
    /\ \E outcome \in Outcomes :
         LET cls == IF InitializeFault(state) # "none"
                    THEN InitializeFault(state) ELSE outcome
         IN /\ state' = IF cls = "none" THEN AfterInitialize(state) ELSE state
            /\ fault' = InitializeFault(state)
            /\ client' = [client EXCEPT !.pc = Continue(cls, "tests"),
                                        !.raised = cls]
    /\ prior' = state
    /\ request' = [op |-> "initialize"]
    /\ response' = NoResponse
    /\ drawn' = << >>
    /\ UNCHANGED <<server, served, trace>>

(* The handler's answer to a request of the script. *)
Answer(req, rnd) ==
    CASE req.op = "ListTools" ->
           [returned |-> TRUE, branch |-> "list",
            tools |-> HandleListTools(server)]
      [] req.op = "ListResources" ->
           [returned |-> TRUE, branch |-> "list",
            resources |-> HandleListResources(server)]
      [] req.op = "CallTool" ->
           HandleCallTool(server, req.name, req.arguments, rnd)
      [] req.op = "ReadResource" -> HandleReadResource(server, req.uri)

(* The next awaited request of the script: the session refuses it with its *)
(* state's fault or hands it to the handler, and the call returns the      *)
(* answer or raises.                                                       *)
RunStep ==
    /\ client.pc = "tests"
    /\ client.step <= Len(Script(client.argv))
    /\ LET req == Script(client.argv)[client.step]
       IN \E outcome \in Outcomes :
            \E rnd \in IF req.op = "CallTool"
                       THEN Draws(server, req.name, req.arguments) ELSE {0} :
              LET cls == IF DispatchFault(state) # "none"
                         THEN DispatchFault(state) ELSE outcome
              IN /\ request' = req
                 /\ prior' = state
                 /\ fault' = DispatchFault(state)
                 /\ response' = IF cls = "none" THEN Answer(req, rnd)
                                ELSE NoResponse
                 /\ drawn' = IF cls = "none" /\ req.op = "CallTool"
                             THEN Drawn(server, state, req.name,
                                        req.arguments, rnd)
                             ELSE << >>
                 /\ client' = [client EXCEPT !.pc = Continue(cls, "tests"),
                                             !.step = @ + 1,
                                             !.raised = cls]
    /\ UNCHANGED <<server, state, served, trace>>

(* The try block has run to its end. *)
FinishTests ==
    /\ client.pc = "tests"
    /\ client.step > Len(Script(client.argv))
    /\ client' = [client EXCEPT !.pc = "finally"]
    /\ UNCHANGED session
    /\ UNCHANGED trace

(* except Exception as e: the error is printed and swallowed. *)
ExceptClause ==
    /\ client.pc = "except"
    /\ client' = [client EXCEPT !.pc = "finally", !.raised = "none"]
    /\ UNCHANGED session
    /\ UNCHANGED trace

(* finally: await client.disconnect(), which closes the session if the     *)
(* client has one; then main is over, with whatever is still raised.       *)
Disconnect ==
    /\ client.pc = "finally"
    /\ IF client.session # "None"
       THEN /\ \E outcome \in Outcomes :
                 client' = [client EXCEPT
                              !.pc = "done",
                              !.disconnects = @ + 1,
                              !.closes = @ + 1,
                              !.raised = IF outcome = "none" THEN @
                                         ELSE outcome]
            /\ state' = AfterClose(state)
            /\ fault' = CloseFault(state)
            /\ prior' = state
            /\ request' = [op |-> "close"]
            /\ response' = NoResponse
            /\ drawn' = << >>
            /\ UNCHANGED <<server, served>>
       ELSE /\ client' = [client EXCEPT !.pc = "done",
                                        !.disconnects = @ + 1]
            /\ UNCHANGED session
    /\ UNCHANGED trace

ClientNext ==
    \/ CreateSession
    \/ InitializeSession
    \/ RunStep
    \/ FinishTests
    \/ ExceptClause
    \/ Disconnect

(* Every awaited call returns or raises, so main always takes its next    *)
(* step.                                                                   *)
ClientSpec == ClientInit /\ [][ClientNext]_vars /\ WF_vars(ClientNext)

(***************************************************************************)
(* C21: the calculator test client always disconnects.  On every path      *)
(* through main, also when connect or a test step raises, disconnect is    *)
(* eventually invoked, once, and main is not over before it was; the       *)
(* session's close() is called exactly when disconnect ran with a session  *)
(* object created, at most once, and it leaves the session closed; and     *)
(* every tool call, listing or resource read is issued to a session whose  *)
(* initialize() has completed (it is Ready) and whose close() was not yet  *)
(* called.                                                                 *)
(***************************************************************************)
C21_ClientAlwaysDisconnects ==
    /\ [](/\ client.pc = "done" => client.disconnects = 1
          /\ client.disconnects <= 1
          /\ client.closes =
               (IF client.disconnects = 1 /\ client.session = "ClientSession"
                THEN 1 ELSE 0)
          /\ client.closes = 1 => state = "Closed"
          /\ client.closes = 0 /\ client.pc = "done" => state = "Uninitialized"
          /\ request.op \in RequestOps =>
               /\ prior = "Ready"
               /\ state = "Ready"
               /\ client.closes = 0
               /\ client.disconnects = 0)
    /\ <>(client.disconnects = 1)

(* main is over after a test step raised in mid-script: disconnect was     *)
(* invoked and closed the session the client had.                          *)
C21_Witness ==
    /\ client.pc = "done"
    /\ client.step > 1
    /\ client.step <= Len(Script(client.argv))
    /\ client.raised = "KeyboardInterrupt"
    /\ client.session = "ClientSession"
    /\ client.disconnects = 1
    /\ client.closes = 1
    /\ state = "Closed"
====
